---- MODULE Spec2Model ----
(***************************************************************************)
(* Feedback store, feedback consensus and retrain orchestration of the     *)
(* malicious-URL detector (BackEnd/app/ml/adaptive_learner.py,             *)
(* BackEnd/app/models/url_feedback.py, BackEnd/main.py).                   *)
(*                                                                         *)
(* Strings are sequences of one-character strings.  Confidences are        *)
(* floats in [0,1] and are written in hundredths (90 is 0.90).             *)
(***************************************************************************)
EXTENDS Integers, Sequences, FiniteSets, TLC

(***************************************************************************)
(* Characters and the str methods _normalize_url uses.                     *)
(***************************************************************************)
LowerSeq ==
    <<"a","b","c","d","e","f","g","h","i","j","k","l","m",
      "n","o","p","q","r","s","t","u","v","w","x","y","z">>

UpperSeq ==
    <<"A","B","C","D","E","F","G","H","I","J","K","L","M",
      "N","O","P","Q","R","S","T","U","V","W","X","Y","Z">>

Digits == {"0","1","2","3","4","5","6","7","8","9"}

Letters == {LowerSeq[i] : i \in 1..26} \cup {UpperSeq[i] : i \in 1..26}

\* urllib.parse.scheme_chars
scheme_chars == Letters \cup Digits \cup {"+", "-", "."}

\* str.lower() on one character
LowerChar(c) ==
    IF \E i \in 1..26 : UpperSeq[i] = c
    THEN LowerSeq[CHOOSE i \in 1..26 : UpperSeq[i] = c]
    ELSE c

\* str.lower()
lower(s) == [i \in 1..Len(s) |-> LowerChar(s[i])]

\* str.find(c, start) with 1-based positions; 0 when absent (Python's -1)
find(s, c, start) ==
    IF \E i \in start..Len(s) : s[i] = c
    THEN CHOOSE i \in start..Len(s) : s[i] = c /\ \A j \in start..(i-1) : s[j] # c
    ELSE 0

\* str.rfind(c), 1-based; 0 when absent
rfind(s, c) ==
    IF \E i \in 1..Len(s) : s[i] = c
    THEN CHOOSE i \in 1..Len(s) : s[i] = c /\ \A j \in (i+1)..Len(s) : s[j] # c
    ELSE 0

\* c in s
contains(s, c) == \E i \in 1..Len(s) : s[i] = c

\* s[:i-1] for the 1-based position i of a delimiter
before(s, i) == SubSeq(s, 1, i - 1)

\* s[i:] (0-based slice start i, i.e. everything after the first i characters)
after(s, i) == SubSeq(s, i + 1, Len(s))

RECURSIVE rstrip(_, _)
\* str.rstrip(c)
rstrip(s, c) ==
    IF Len(s) > 0 /\ s[Len(s)] = c THEN rstrip(SubSeq(s, 1, Len(s) - 1), c) ELSE s

RECURSIVE replace(_, _)
\* str.replace(old, ''): leftmost non-overlapping occurrences, one pass
replace(s, old) ==
    IF Len(s) < Len(old) THEN s
    ELSE IF SubSeq(s, 1, Len(old)) = old THEN replace(after(s, Len(old)), old)
    ELSE <<s[1]>> \o replace(Tail(s), old)

(***************************************************************************)
(* urllib.parse.urlparse, as far as netloc and path are concerned.         *)
(***************************************************************************)
\* urllib.parse.uses_params
uses_params ==
    { <<>>,
      <<"f","t","p">>, <<"h","d","l">>,
      <<"p","r","o","s","p","e","r","o">>,
      <<"h","t","t","p">>, <<"i","m","a","p">>,
      <<"h","t","t","p","s">>, <<"s","h","t","t","p">>,
      <<"r","t","s","p">>, <<"r","t","s","p","s">>, <<"r","t","s","p","u">>,
      <<"s","i","p">>, <<"s","i","p","s">>, <<"m","m","s">>,
      <<"s","f","t","p">>, <<"t","e","l">> }

\* min over the delimiters '/', '?', '#' found at or after start, else end of string
\* (1-based position of the first character after the netloc)
_splitnetloc_delim(url, start) ==
    LET found == {find(url, c, start) : c \in {"/", "?", "#"}} \ {0}
    IN  IF found = {} THEN Len(url) + 1
        ELSE CHOOSE d \in found : \A e \in found : d <= e

\* url.split(c, 1)[0]
split_first(url, c) == IF contains(url, c) THEN before(url, find(url, c, 1)) ELSE url

\* _splitparams(url)[0]
_splitparams(url) ==
    LET i == IF contains(url, "/") THEN find(url, ";", rfind(url, "/"))
             ELSE find(url, ";", 1)
    IN  IF i = 0 /\ contains(url, "/") THEN url
        ELSE IF i = 0 THEN SubSeq(url, 1, Len(url) - 1)   \* url[:-1]
        ELSE before(url, i)

\* urlsplit + urlparse: [raises, scheme, netloc, path]
urlparse(url) ==
    LET i      == find(url, ":", 1)
        isSch  == i > 1 /\ url[1] \in Letters
                        /\ \A k \in 1..(i-1) : url[k] \in scheme_chars
        scheme == IF isSch THEN lower(before(url, i)) ELSE <<>>
        rest   == IF isSch THEN after(url, i) ELSE url
        hasNet == Len(rest) >= 2 /\ rest[1] = "/" /\ rest[2] = "/"
        delim  == _splitnetloc_delim(rest, 3)
        netloc == IF hasNet THEN SubSeq(rest, 3, delim - 1) ELSE <<>>
        rest2  == IF hasNet THEN SubSeq(rest, delim, Len(rest)) ELSE rest
        path0  == split_first(split_first(rest2, "#"), "?")
        path   == IF scheme \in uses_params /\ contains(path0, ";")
                  THEN _splitparams(path0) ELSE path0
    IN  [ raises |-> contains(netloc, "[") # contains(netloc, "]"),
          scheme |-> scheme, netloc |-> netloc, path |-> path ]

WWW_DOT == <<"w","w","w",".">>

\* AdaptiveLearner._normalize_url
_normalize_url(url) ==
    LET parsed == urlparse(lower(url))
    IN  IF parsed.raises THEN url
        ELSE replace(rstrip(parsed.netloc \o parsed.path, "/"), WWW_DOT)

\* AdaptiveLearner._generate_url_hash: the MD5 hex digest, modelled as a
\* collision-free tag of the string it digests
_generate_url_hash(normalized_url) == <<"md5">> \o normalized_url

(***************************************************************************)
(* Bounds and inputs.                                                      *)
(***************************************************************************)
\* feedback events committed in one behaviour that has feedback on several URLs
MaxFeedback == 3

\* feedback events committed in one behaviour that has feedback on one URL only
MaxHistory == 5

\* database sessions open at the same time (each request has its own, get_db)
MaxSessions == 2

\* feedback events committed on the one URL of a long history
MaxLongHistory == 105

\* benign events on the one URL of a sustained run before its malicious events
EarlierEvents == 50

\* feedback events committed on the one URL of a sustained run
MaxSustained == 130

\* chunks of the largest input of a bulk extraction
MaxChunks == 3

\* feature columns of the largest trained model
MaxFeatures == 6

\* longest generated string handed to _normalize_url
MaxUrlLen == 5

\* AdaptiveLearner.__init__: self.retrain_threshold
retrain_threshold == 1000

HTTP == <<"h","t","t","p",":","/","/">>

\* URLs submitted as feedback: the first two normalize to the same string
Urls ==
    { HTTP \o <<"a",".","c","o","/">>,
      HTTP \o <<"w","w","w",".","a",".","c","o">>,
      HTTP \o <<"b",".","c","o">> }

\* reported confidences, in hundredths
Confidences == {50, 90}

Sessions == 1..MaxSessions

\* where the database raises in process_feedback (OperationalError, lost
\* connection): "commit" at a statement up to and including db.commit()
\* (lines 106-158, 183-186), "verify" at a statement after it (the refresh,
\* the verification query, the count: lines 159-202); "none" when every
\* statement succeeds
Faults == {"none", "commit", "verify"}

VARIABLES
    preloaded,  \* rows of url_feedback for URLs outside Urls: n rows, each with
                \* feedback_count 2, history malicious,malicious, consensus
                \* reached, and the used_in_training value recorded here
    store,      \* rows of url_feedback for the URLs of Urls, in insertion order
    clock,      \* logical time: the latest timestamp committed to url_feedback
    ret,        \* what the last finished call returned or raised
    returned,   \* interleaved runs: per url_hash, the process_feedback calls that
                \* returned a result
    sess,       \* per database session, the call in progress (interleaved runs)
    artifacts,  \* per file written by the retrain pipeline, the call that wrote it last
    norm,       \* input and results of _normalize_url (normalization runs)
    trainer,    \* ModelTrainer.initiate_model_training: inputs, loop position, files
    bulk,       \* BulkFeatureExtractor._process_urls_in_parallel: chunks and rows
    predictor,  \* URLPredictor: the artifacts on disk, the object, the last result
    extractor   \* FeatureExtractor.extract_features: the URL and the features

vars == <<preloaded, store, clock, ret, returned, sess, artifacts, norm,
          trainer, bulk, predictor, extractor>>

\* the feedback service and the normalization
service == <<preloaded, store, clock, ret, returned, sess, artifacts, norm>>

\* the components that work on files, outside the feedback service
offline == <<trainer, bulk, predictor, extractor>>

\* a component that is not running
Off == [pc |-> "off"]

\* self._normalize_url(url) for the URLs of Urls
normalized == [u \in Urls |-> _normalize_url(u)]

Hashes == {_generate_url_hash(normalized[u]) : u \in Urls}

(***************************************************************************)
(* The url_feedback table (URLFeedback) and the queries made on it.        *)
(***************************************************************************)
\* result of .first() when no row matches
NoRow == [id |-> 0]

\* URLFeedback(...) as built by process_feedback for an unseen url_hash
new_record(id, url, url_hash, normalized_url, is_malicious, confidence, current_time) ==
    [ id                    |-> id,
      url                   |-> url,
      url_hash              |-> url_hash,
      normalized_url        |-> normalized_url,
      type                  |-> IF is_malicious THEN "malicious" ELSE "benign",
      timestamp             |-> current_time,
      used_in_training      |-> FALSE,
      confidence            |-> confidence,
      feedback_count        |-> 1,
      conflicting_feedbacks |-> 0,
      last_feedback_type    |-> << IF is_malicious THEN "malicious" ELSE "benign" >>,
      consensus_reached     |-> FALSE ]

\* db.query(URLFeedback).filter(URLFeedback.url_hash == url_hash).first()
\* (no preloaded row has a url_hash of Hashes)
query_by_hash(table, url_hash) ==
    LET hits == {i \in 1..Len(table) : table[i].url_hash = url_hash}
    IN  IF hits = {} THEN NoRow
        ELSE table[CHOOSE i \in hits : \A j \in hits : i <= j]

\* the filter used_in_training == False, consensus_reached == True | feedback_count >= 2
is_eligible_unused(row) ==
    row.used_in_training = FALSE /\ (row.consensus_reached = TRUE \/ row.feedback_count >= 2)

\* .filter(<eligible and unused>).count()
count_eligible_unused(pre, table) ==
    (IF pre.used_in_training = FALSE THEN pre.n ELSE 0)
    + Cardinality({i \in 1..Len(table) : is_eligible_unused(table[i])})

\* unique=True on url_hash: the INSERT raises IntegrityError on a duplicate
violates_unique_off(table, url_hash) == FALSE

violates_unique(table, url_hash) ==
    \E i \in 1..Len(table) : table[i].url_hash = url_hash

(***************************************************************************)
(* AdaptiveLearner.process_feedback                                        *)
(***************************************************************************)
\* malicious_count >= new_feedback_count * 0.6, with 0.5 in place of 0.6
reaches_majority_half(count, new_feedback_count) == 10 * count >= 5 * new_feedback_count

\* count >= new_feedback_count * 0.6.  The float product n * 0.6 is never
\* above the exact 6n/10 and never at or below an integer smaller than it, so
\* the comparison with an integer count is the exact one.
reaches_majority(count, new_feedback_count) == 10 * count >= 6 * new_feedback_count

\* type by majority, a tie going to benign
majority_type_strict(malicious_count, benign_count) ==
    IF malicious_count > benign_count THEN "malicious" ELSE "benign"

\* 'malicious' if malicious_count >= benign_count else 'benign'
majority_type(malicious_count, benign_count) ==
    IF malicious_count >= benign_count THEN "malicious" ELSE "benign"

\* is_type_change, always taken to be a change
is_type_change_always(existing_type, is_malicious) == TRUE

\* is_type_change = (existing_record.type == 'malicious') != is_malicious
is_type_change(existing_type, is_malicious) == (existing_type = "malicious") # is_malicious

max(a, b) == IF a >= b THEN a ELSE b

\* the flag of an updated record, set instead of reset
reset_training_flag_set(existing_record) == TRUE

\* 'used_in_training': False  # Reset training flag on update
reset_training_flag(existing_record) == FALSE

\* the confidence of an updated record, always the reported one
new_confidence_reported(existing_record, confidence, type_change) == confidence

\* max(confidence, existing_record.confidence) if not is_type_change else confidence
new_confidence(existing_record, confidence, type_change) ==
    IF ~type_change THEN max(confidence, existing_record.confidence) ELSE confidence

\* new_conflicting_feedbacks, raised on every event
new_conflicting_feedbacks_always(existing_record, type_change) ==
    existing_record.conflicting_feedbacks + 1

\* existing_record.conflicting_feedbacks + 1 if is_type_change
\* else existing_record.conflicting_feedbacks
new_conflicting_feedbacks(existing_record, type_change) ==
    IF type_change THEN existing_record.conflicting_feedbacks + 1
    ELSE existing_record.conflicting_feedbacks

\* sum(1 for f in feedback_history if f == 'malicious')
count_malicious(feedback_history) ==
    Cardinality({i \in 1..Len(feedback_history) : feedback_history[i] = "malicious"})

\* the updates dict of process_feedback for an existing record; the history
\* string "a,b,c" is held as the sequence of its comma-separated labels
feedback_updates(existing_record, is_malicious, confidence, current_time) ==
    LET label              == IF is_malicious THEN "malicious" ELSE "benign"
        new_feedback_count == existing_record.feedback_count + 1
        type_change        == is_type_change(existing_record.type, is_malicious)
        feedback_history   == Append(existing_record.last_feedback_type, label)
        malicious_count    == count_malicious(feedback_history)
        benign_count       == Len(feedback_history) - malicious_count
    IN  [ type                  |-> IF new_feedback_count >= 2
                                    THEN majority_type(malicious_count, benign_count)
                                    ELSE label,
          confidence            |-> new_confidence(existing_record, confidence, type_change),
          feedback_count        |-> new_feedback_count,
          conflicting_feedbacks |-> new_conflicting_feedbacks(existing_record, type_change),
          last_feedback_type    |-> feedback_history,
          timestamp             |-> current_time,
          used_in_training      |-> reset_training_flag(existing_record),
          consensus_reached     |-> IF new_feedback_count >= 2
                                    THEN \/ reaches_majority(malicious_count, new_feedback_count)
                                         \/ reaches_majority(benign_count, new_feedback_count)
                                    ELSE existing_record.consensus_reached ]

\* setattr for every key, then the UPDATE of db.commit(): the session writes
\* the columns whose new value differs from the value it loaded, into the row
\* as it stands in the table
flush_update(row, loaded, updates) ==
    [f \in DOMAIN row |->
        IF f \in DOMAIN updates /\ updates[f] # loaded[f] THEN updates[f] ELSE row[f]]

\* last_feedback_type = Column(String(1024))
history_column_size == 1024

\* the prefixes of the two labels, by length
LabelPrefix ==
    [ malicious |-> <<"m", "ma", "mal", "mali", "malic", "malici", "malicio", "maliciou",
                      "malicious">>,
      benign    |-> <<"b", "be", "ben", "beni", "benig", "benign">> ]

\* the label an item of a stored history is a prefix of
label_of(item) ==
    IF \E k \in 1..Len(LabelPrefix.malicious) : LabelPrefix.malicious[k] = item
    THEN "malicious" ELSE "benign"

\* len(item) for an item of a stored history
chars(item) ==
    IF item = "malicious" THEN 9
    ELSE IF item = "benign" THEN 6
    ELSE IF item = "" THEN 0
    ELSE CHOOSE k \in 1..Len(LabelPrefix[label_of(item)]) :
             LabelPrefix[label_of(item)][k] = item

\* the first k characters of an item
prefix(item, k) == IF k = 0 THEN "" ELSE LabelPrefix[label_of(item)][k]

RECURSIVE items_chars(_, _, _)
\* the characters of the items 1..n of a history that are k characters or shorter
items_chars(history, n, k) ==
    IF k = 0 THEN 0
    ELSE k * Cardinality({j \in 1..n : chars(history[j]) = k}) + items_chars(history, n, k - 1)

\* len(",".join(history[:n]))
joined_chars(history, n) == IF n = 0 THEN 0 ELSE (n - 1) + items_chars(history, n, 9)

\* len(",".join(history))
history_chars(history) == joined_chars(history, Len(history))

\* the items of ",".join(history)[:room].split(","): the items that fit whole,
\* then what fits of the next one after its comma
cut_items(history, room) ==
    LET whole == CHOOSE n \in 0..Len(history) :
                     /\ joined_chars(history, n) <= room
                     /\ n < Len(history) => joined_chars(history, n + 1) > room
        sep   == IF whole = 0 THEN 0 ELSE 1
        left  == room - joined_chars(history, whole)
    IN  IF whole = Len(history) \/ left < sep THEN SubSeq(history, 1, whole)
        ELSE Append(SubSeq(history, 1, whole), prefix(history[whole + 1], left - sep))

\* len(",".join(history)) > 1024; an item and its comma are at most 10
\* characters, so a history of at most 1024 / 10 items is not measured
too_long(history) ==
    /\ 10 * Len(history) > history_column_size
    /\ history_chars(history) > history_column_size

\* the value the column holds when the server stores a longer string without
\* STRICT_TRANS_TABLES: its first history_column_size characters
stored_history(history) ==
    IF too_long(history) THEN cut_items(history, history_column_size) ELSE history

\* how the server takes a string longer than the column: the code does not set
\* sql_mode, so a strict server raises DataError and another one cuts it
SqlStrict(existing_record, is_malicious) ==
    IF /\ existing_record.id # 0
       /\ too_long(Append(existing_record.last_feedback_type,
                          IF is_malicious THEN "malicious" ELSE "benign"))
    THEN BOOLEAN ELSE {TRUE}

\* the UPDATE applied to the first row of the table
index_of_first(table, id) == 1

\* position in the table of the row with this primary key
index_of(table, id) == CHOOSE i \in 1..Len(table) : table[i].id = id

\* lines 108-190 up to and including db.commit(): the table after the commit,
\* or the IntegrityError of a duplicate url_hash, or the DataError of a
\* history longer than its column on a strict server
feedback_commit(pre, table, call, sql_strict) ==
    IF call.existing_record.id # 0
    THEN LET i       == index_of(table, call.existing_record.id)
             written == flush_update(table[i], call.existing_record,
                            feedback_updates(call.existing_record, call.is_malicious,
                                             call.confidence, call.current_time))
         IN  IF sql_strict /\ too_long(written.last_feedback_type)
             THEN [ raised |-> TRUE, status |-> "DataError", table |-> table ]
             ELSE [ raised |-> FALSE,
                    status |-> "updated",
                    table  |-> [table EXCEPT ![i] =
                                 [written EXCEPT !.last_feedback_type = stored_history(@)]] ]
    ELSE IF violates_unique(table, call.url_hash)
    THEN [ raised |-> TRUE, status |-> "IntegrityError", table |-> table ]
    ELSE [ raised |-> FALSE,
           status |-> "new",
           table  |-> Append(table,
                        new_record(pre.n + Len(table) + 1, call.url, call.url_hash,
                                   call.normalized_url, call.is_malicious,
                                   call.confidence, call.current_time)) ]

\* needs_retraining with > in place of >=
needs_retraining_strict(unused_samples) == unused_samples > retrain_threshold

\* needs_retraining = unused_samples >= self.retrain_threshold
needs_retraining(unused_samples) == unused_samples >= retrain_threshold

\* lines 192-221: the verification query, the count and the returned dict
feedback_result(pre, table, call, update_status) ==
    LET verified_record == query_by_hash(table, call.url_hash)
        unused_samples  == count_eligible_unused(pre, table)
    IN  [ op               |-> "process_feedback",
          raised           |-> FALSE,
          url_hash         |-> call.url_hash,
          needs_retraining |-> needs_retraining(unused_samples),
          unused_samples   |-> unused_samples,
          feedback_status  |-> update_status,
          current_values   |->
            [ url                   |-> verified_record.url,
              type                  |-> verified_record.type,
              confidence            |-> verified_record.confidence,
              feedback_count        |-> verified_record.feedback_count,
              conflicting_feedbacks |-> verified_record.conflicting_feedbacks,
              consensus_reached     |-> verified_record.consensus_reached,
              last_feedback_type    |-> verified_record.last_feedback_type,
              last_update           |-> verified_record.timestamp ] ]

\* except Exception: db.rollback(); raise Exception(...)
raised_result(op, error) == [op |-> op, raised |-> TRUE, error |-> error]

\* lines 101-106: normalize, hash, take the time, look the record up
feedback_call(table, url, is_malicious, confidence, current_time) ==
    LET normalized_url == normalized[url]
        url_hash       == _generate_url_hash(normalized_url)
    IN  [ url             |-> url,
          normalized_url  |-> normalized_url,
          url_hash        |-> url_hash,
          is_malicious    |-> is_malicious,
          confidence      |-> confidence,
          current_time    |-> current_time,
          existing_record |-> query_by_hash(table, url_hash) ]

\* process_feedback run from start to end on the event loop (the handler is a
\* coroutine without a suspension point).  The time read is later than every
\* stored timestamp; the clock advances when a timestamp is committed.
process_feedback(url, is_malicious, confidence, fault) ==
    /\ \E call \in {feedback_call(store, url, is_malicious, confidence, clock + 1)} :
       \E sql_strict \in SqlStrict(call.existing_record, is_malicious) :
       \E committed \in {feedback_commit(preloaded, store, call, sql_strict)} :
       \E result \in {feedback_result(preloaded, committed.table, call, committed.status)} :
       \E persisted \in {fault # "commit" /\ ~committed.raised} :
           /\ store' = IF persisted THEN committed.table ELSE store
           /\ clock' = IF persisted THEN clock + 1 ELSE clock
           /\ ret' = IF fault # "none" THEN raised_result("process_feedback", "OperationalError")
                     ELSE IF committed.raised
                     THEN raised_result("process_feedback", committed.status)
                     ELSE result
    /\ UNCHANGED <<preloaded, returned, sess, artifacts, norm, offline>>

\* a process_feedback call within the bounds on the events of one behaviour
ProcessFeedback(url, is_malicious, confidence, fault) ==
    /\ clock < (IF \A i \in 1..Len(store) : store[i].normalized_url = normalized[url]
                THEN MaxHistory ELSE MaxFeedback)
    /\ process_feedback(url, is_malicious, confidence, fault)

(***************************************************************************)
(* AdaptiveLearner.get_training_stats                                      *)
(***************************************************************************)
\* max(0, self.retrain_threshold - unused_records)
remaining_until_retrain(unused_records) == max(0, retrain_threshold - unused_records)

RECURSIVE sum_feedback_count(_)
sum_feedback_count(table) ==
    IF table = <<>> THEN 0 ELSE Head(table).feedback_count + sum_feedback_count(Tail(table))

\* the dict returned by get_training_stats
training_stats(pre, table) ==
    LET total_records  == pre.n + Len(table)
        unused_records == count_eligible_unused(pre, table)
        rows           == 1..Len(table)
    IN  [ op                      |-> "get_training_stats",
          raised                  |-> FALSE,
          total_records           |-> total_records,
          unused_eligible_records |-> unused_records,
          consensus_records       |->
              pre.n + Cardinality({i \in rows : table[i].consensus_reached = TRUE}),
          type_distribution       |->
              [ malicious |-> pre.n + Cardinality({i \in rows : table[i].type = "malicious"}),
                benign    |-> Cardinality({i \in rows : table[i].type = "benign"}) ],
          \* func.avg(feedback_count), as the pair sum / rows
          average_feedbacks       |->
              [ sum |-> 2 * pre.n + sum_feedback_count(table), rows |-> total_records ],
          max_feedbacks           |->
              IF total_records = 0 THEN 0
              ELSE CHOOSE m \in {table[i].feedback_count : i \in rows}
                                \cup (IF pre.n > 0 THEN {2} ELSE {}) :
                     /\ \A i \in rows : table[i].feedback_count <= m
                     /\ (pre.n > 0 => 2 <= m),
          needs_retraining        |-> needs_retraining(unused_records),
          remaining_until_retrain |-> remaining_until_retrain(unused_records) ]

\* get_training_stats; db_fails: one of its queries raises
GetTrainingStats(db_fails) ==
    /\ ret' = IF db_fails THEN raised_result("get_training_stats", "OperationalError")
              ELSE training_stats(preloaded, store)
    /\ UNCHANGED <<preloaded, store, clock, returned, sess, artifacts, norm, offline>>

(***************************************************************************)
(* AdaptiveLearner.retrain_model                                           *)
(***************************************************************************)
\* what `await <expr>` accepts: a coroutine or another awaitable
is_awaitable(kind) == kind \in {"coroutine", "future", "task"}

\* initiate_data_ingestion_transformation as an async def
ingestion_return_kind_coroutine == "coroutine"

\* initiate_data_ingestion_transformation is a plain def returning a tuple
ingestion_return_kind == "tuple"

\* the stages of lines 300-318 that can raise by themselves, in order, and
\* "none" when none of them does
PipelineFaults == {"ingestion", "training", "commit", "none"}

\* lines 300-318 with the records marked and committed before the pipeline runs
retrain_pipeline_marks_first(pipeline_fault) ==
    IF pipeline_fault = "ingestion"
    THEN [raised |-> TRUE, error |-> "DataIngestionError",
          ingested |-> FALSE, trained |-> FALSE, marked |-> TRUE]
    ELSE [raised |-> TRUE, error |-> "TypeError",
          ingested |-> TRUE, trained |-> FALSE, marked |-> TRUE]

\* lines 300-318: the ingestion call and the await of its result, the
\* training, the marking and its commit.
\*   ingested: the transformed data and the preprocessor were written
\*   trained:  the best model was written
\*   marked:   the marks are committed
retrain_pipeline(pipeline_fault) ==
    IF pipeline_fault = "ingestion"
    THEN [raised |-> TRUE, error |-> "DataIngestionError",
          ingested |-> FALSE, trained |-> FALSE, marked |-> FALSE]
    ELSE IF ~is_awaitable(ingestion_return_kind)
    THEN [raised |-> TRUE, error |-> "TypeError",
          ingested |-> TRUE, trained |-> FALSE, marked |-> FALSE]
    ELSE IF pipeline_fault = "training"
    THEN [raised |-> TRUE, error |-> "ModelTrainerError",
          ingested |-> TRUE, trained |-> FALSE, marked |-> FALSE]
    ELSE IF pipeline_fault = "commit"
    THEN [raised |-> TRUE, error |-> "OperationalError",
          ingested |-> TRUE, trained |-> TRUE, marked |-> FALSE]
    ELSE [raised |-> FALSE, error |-> "",
          ingested |-> TRUE, trained |-> TRUE, marked |-> TRUE]

\* the no-op test with the threshold one lower
not_enough_data_one_lower(found) == found < retrain_threshold - 1

\* if len(training_records) < self.retrain_threshold
not_enough_data(found) == found < retrain_threshold

\* for record in training_records: record.used_in_training = True
mark_used(table, ids) ==
    [i \in 1..Len(table) |->
        IF i \in ids THEN [table[i] EXCEPT !.used_in_training = TRUE] ELSE table[i]]

\* retrain_model run from start to end.  A file is held as the number of
\* feedback rows in the dataset it was last written from (0: as at start).
\*   db_fails        the query for the training records raises
\*   failed          rows of store whose feature extraction raises
\*   bulk_failed     the feature extraction of the preloaded rows raises
\*   pipeline_fault  the stage of the pipeline that raises by itself
RetrainModel(db_fails) ==
    LET training_ids  == {i \in 1..Len(store) : is_eligible_unused(store[i])}
        bulk_training == IF preloaded.used_in_training = FALSE THEN preloaded.n ELSE 0
        found         == bulk_training + Cardinality(training_ids)
    IN  /\ UNCHANGED <<clock, returned, sess, norm, offline>>
        /\ IF db_fails
           THEN /\ ret' = raised_result("retrain_model", "OperationalError")
                /\ UNCHANGED <<preloaded, store, artifacts>>
           ELSE IF not_enough_data(found)
           THEN /\ ret' = [ op             |-> "retrain_model",
                            raised         |-> FALSE,
                            message        |-> "Not enough new data for retraining",
                            unused_samples |-> found,
                            threshold      |-> retrain_threshold ]
                /\ UNCHANGED <<preloaded, store, artifacts>>
           ELSE \E failed \in SUBSET training_ids, bulk_failed \in BOOLEAN,
                   pipeline_fault \in PipelineFaults :
                LET failed_urls    == Cardinality(failed)
                                      + (IF bulk_failed THEN bulk_training ELSE 0)
                    processed_urls == found - failed_urls
                    outcome        == retrain_pipeline(pipeline_fault)
                IN  IF processed_urls = 0
                    THEN /\ ret' = raised_result("retrain_model", "No valid features extracted")
                         /\ UNCHANGED <<preloaded, store, artifacts>>
                    ELSE /\ artifacts' =
                               [ combined_training_data |->
                                     IF outcome.raised THEN processed_urls ELSE 0,
                                 transformed_data       |->
                                     IF outcome.ingested THEN processed_urls
                                     ELSE artifacts.transformed_data,
                                 preprocessor           |->
                                     IF outcome.ingested THEN processed_urls
                                     ELSE artifacts.preprocessor,
                                 best_model             |->
                                     IF outcome.trained THEN processed_urls
                                     ELSE artifacts.best_model ]
                         /\ store' = IF outcome.marked
                                     THEN mark_used(store, training_ids) ELSE store
                         /\ preloaded' = IF outcome.marked
                                         THEN [preloaded EXCEPT !.used_in_training = TRUE]
                                         ELSE preloaded
                         /\ ret' = IF outcome.raised
                                   THEN raised_result("retrain_model", outcome.error)
                                   ELSE [ op               |-> "retrain_model",
                                          raised           |-> FALSE,
                                          message          |-> "Model retrained successfully",
                                          new_samples_used |-> processed_urls,
                                          failed_samples   |-> failed_urls ]

(***************************************************************************)
(* One process, one event loop: every handler runs to its end.             *)
(***************************************************************************)
NoCall == [op |-> "none", raised |-> FALSE]

NoArtifacts ==
    [combined_training_data |-> 0, transformed_data |-> 0, preprocessor |-> 0, best_model |-> 0]

\* the table as feedback has filled it before the run starts: empty, or one
\* eligible unused row short of the retrain threshold
Init ==
    /\ preloaded \in {[n |-> k, used_in_training |-> FALSE] : k \in {0, retrain_threshold - 1}}
    /\ store = <<>>
    /\ clock = 0
    /\ ret = NoCall
    /\ returned = [h \in Hashes |-> 0]
    /\ sess = [s \in Sessions |-> [pc |-> "idle"]]
    /\ artifacts = NoArtifacts
    /\ norm = [step |-> 0]
    /\ trainer = Off
    /\ bulk = Off
    /\ predictor = Off
    /\ extractor = Off

Feedback ==
    \E url \in Urls, is_malicious \in BOOLEAN, confidence \in Confidences, fault \in Faults :
        ProcessFeedback(url, is_malicious, confidence, fault)

Stats == \E db_fails \in BOOLEAN : GetTrainingStats(db_fails)

Retrain == \E db_fails \in BOOLEAN : RetrainModel(db_fails)

Next == Feedback \/ Stats \/ Retrain

Spec == Init /\ [][Next]_vars

(***************************************************************************)
(* Interleaved runs: process_feedback calls in separate database sessions  *)
(* (several worker processes on one database), one statement at a time.    *)
(* The sessions read committed rows; a commit writes the row in the table. *)
(***************************************************************************)
\* lines 101-106 in session s: the call reads the time and looks its record up
FeedbackQuery(s, url, is_malicious, confidence) ==
    /\ sess[s].pc = "idle"
    /\ clock < MaxFeedback
    /\ clock' = clock + 1
    /\ sess' = [sess EXCEPT ![s] =
                 [ pc   |-> "queried",
                   call |-> feedback_call(store, url, is_malicious, confidence, clock + 1) ]]
    /\ UNCHANGED <<preloaded, store, ret, returned, artifacts, norm, offline>>

\* lines 108-190 in session s: the update or insert and its commit; on
\* IntegrityError the except branch rolls back and raises
FeedbackCommit(s) ==
    /\ sess[s].pc = "queried"
    /\ \E sql_strict \in SqlStrict(sess[s].call.existing_record, sess[s].call.is_malicious) :
       \E committed \in {feedback_commit(preloaded, store, sess[s].call, sql_strict)} :
           IF committed.raised
           THEN /\ ret' = raised_result("process_feedback", committed.status)
                /\ sess' = [sess EXCEPT ![s] = [pc |-> "idle"]]
                /\ UNCHANGED store
           ELSE /\ store' = committed.table
                /\ sess' = [sess EXCEPT ![s] =
                             [ pc     |-> "committed",
                               call   |-> sess[s].call,
                               status |-> committed.status ]]
                /\ UNCHANGED ret
    /\ UNCHANGED <<preloaded, clock, returned, artifacts, norm, offline>>

\* lines 192-221 in session s: verification, count, return
FeedbackReturn(s) ==
    /\ sess[s].pc = "committed"
    /\ ret' = feedback_result(preloaded, store, sess[s].call, sess[s].status)
    /\ returned' = [returned EXCEPT ![sess[s].call.url_hash] = @ + 1]
    /\ sess' = [sess EXCEPT ![s] = [pc |-> "idle"]]
    /\ UNCHANGED <<preloaded, store, clock, artifacts, norm, offline>>

\* the confidence takes no part in the order of the statements: one value
SessionConfidences == {90}

\* the sessions are interchangeable: a new call takes the first idle one
first_idle(s) == sess[s].pc = "idle" /\ \A t \in Sessions : sess[t].pc = "idle" => s <= t

Query ==
    \E s \in Sessions, url \in Urls, is_malicious \in BOOLEAN, confidence \in SessionConfidences :
        first_idle(s) /\ FeedbackQuery(s, url, is_malicious, confidence)

Commit == \E s \in Sessions : FeedbackCommit(s)

Return == \E s \in Sessions : FeedbackReturn(s)

\* lines 233-245 in session s: retrain_model fetches the training records and
\* returns the no-op report below the threshold; nothing in retrain_model or
\* in the endpoint (main.py 272-285) looks for another retrain under way
RetrainFetch(s) ==
    /\ first_idle(s)
    /\ \E training_ids \in {{i \in 1..Len(store) : is_eligible_unused(store[i])}} :
       \E bulk_training \in {IF preloaded.used_in_training = FALSE THEN preloaded.n ELSE 0} :
           IF not_enough_data(bulk_training + Cardinality(training_ids))
           THEN /\ ret' = [ op             |-> "retrain_model",
                            raised         |-> FALSE,
                            message        |-> "Not enough new data for retraining",
                            unused_samples |-> bulk_training + Cardinality(training_ids),
                            threshold      |-> retrain_threshold ]
                /\ UNCHANGED sess
           ELSE /\ sess' = [sess EXCEPT ![s] =
                             [ pc               |-> "fetched",
                               training_ids     |-> training_ids,
                               training_records |-> [i \in training_ids |-> store[i]],
                               bulk_training    |-> bulk_training ]]
                /\ UNCHANGED ret
    /\ UNCHANGED <<preloaded, store, clock, returned, artifacts, norm, offline>>

\* lines 247-351 in session s: the extraction loop, the files, the pipeline,
\* the marks on the records the session fetched, the commit or the rollback
RetrainFinish(s) ==
    /\ sess[s].pc = "fetched"
    /\ sess' = [sess EXCEPT ![s] = [pc |-> "idle"]]
    /\ \E failed \in SUBSET sess[s].training_ids, bulk_failed \in BOOLEAN,
          pipeline_fault \in PipelineFaults :
       \E failed_urls \in {Cardinality(failed)
                              + (IF bulk_failed THEN sess[s].bulk_training ELSE 0)} :
       \E processed_urls \in {sess[s].bulk_training + Cardinality(sess[s].training_ids)
                                 - failed_urls} :
       \E outcome \in {retrain_pipeline(pipeline_fault)} :
           IF processed_urls = 0
           THEN /\ ret' = raised_result("retrain_model", "No valid features extracted")
                /\ UNCHANGED <<preloaded, store, artifacts>>
           ELSE /\ artifacts' =
                      [ combined_training_data |->
                            IF outcome.raised THEN processed_urls ELSE 0,
                        transformed_data       |->
                            IF outcome.ingested THEN processed_urls
                            ELSE artifacts.transformed_data,
                        preprocessor           |->
                            IF outcome.ingested THEN processed_urls
                            ELSE artifacts.preprocessor,
                        best_model             |->
                            IF outcome.trained THEN processed_urls
                            ELSE artifacts.best_model ]
                /\ store' = IF outcome.marked
                            THEN mark_used(store, sess[s].training_ids) ELSE store
                /\ preloaded' = IF outcome.marked /\ sess[s].bulk_training > 0
                                THEN [preloaded EXCEPT !.used_in_training = TRUE]
                                ELSE preloaded
                /\ ret' = IF outcome.raised
                          THEN raised_result("retrain_model", outcome.error)
                          ELSE [ op               |-> "retrain_model",
                                 raised           |-> FALSE,
                                 message          |-> "Model retrained successfully",
                                 new_samples_used |-> processed_urls,
                                 failed_samples   |-> failed_urls ]
    /\ UNCHANGED <<clock, returned, norm, offline>>

Fetch == \E s \in Sessions : RetrainFetch(s)

Finish == \E s \in Sessions : RetrainFinish(s)

NextConc == Query \/ Commit \/ Return

SpecConc == Init /\ [][NextConc]_vars

\* the feedback calls and the retrain calls of the sessions, interleaved
NextRetrain == Query \/ Commit \/ Return \/ Fetch \/ Finish

SpecRetrain == Init /\ [][NextRetrain]_vars

(***************************************************************************)
(* A retrain in one session while feedback calls are served, one after     *)
(* another, in a second session.                                           *)
(***************************************************************************)
RetrainSession == 1

FeedbackSession == 2

RaceQuery ==
    \E url \in Urls, is_malicious \in BOOLEAN, confidence \in SessionConfidences :
        FeedbackQuery(FeedbackSession, url, is_malicious, confidence)

RaceCommit == FeedbackCommit(FeedbackSession)

RaceReturn == FeedbackReturn(FeedbackSession)

RaceFetch == RetrainFetch(RetrainSession)

RaceFinish == RetrainFinish(RetrainSession)

NextRace == RaceQuery \/ RaceCommit \/ RaceReturn \/ RaceFetch \/ RaceFinish

SpecRace == Init /\ [][NextRace]_vars

(***************************************************************************)
(* One event loop, statement by statement: a call starts when no other is  *)
(* in progress, so its session holds the arguments and the record it read  *)
(* until it returns.                                                       *)
(***************************************************************************)
SerialQuery ==
    \E url \in Urls, is_malicious \in BOOLEAN, confidence \in Confidences :
        /\ \A s \in Sessions : sess[s].pc = "idle"
        /\ FeedbackQuery(1, url, is_malicious, confidence)

NextSerial == SerialQuery \/ Commit \/ Return

SpecSerial == Init /\ [][NextSerial]_vars

(***************************************************************************)
(* Long histories: one URL reported malicious again and again, each call   *)
(* run to its end, until the joined history outgrows its column.           *)
(***************************************************************************)
LongFeedback ==
    /\ clock < MaxLongHistory
    /\ process_feedback(HTTP \o <<"b", ".", "c", "o">>, TRUE, 90, "none")

SpecHist == Init /\ [][LongFeedback]_vars

(***************************************************************************)
(* Sustained feedback: one URL reported benign EarlierEvents times, then   *)
(* malicious in every later event, each call run to its end.               *)
(***************************************************************************)
SustainedFeedback ==
    /\ clock < MaxSustained
    /\ process_feedback(HTTP \o <<"b", ".", "c", "o">>, clock >= EarlierEvents, 90, "none")

SpecSustained == Init /\ [][SustainedFeedback]_vars

(***************************************************************************)
(* ModelTrainer.initiate_model_training.  A score is a weighted F1 in      *)
(* hundredths.  What a candidate does on the data is an input: the stage   *)
(* at which it raises ("none": it does not), the mean F1 of its            *)
(* cross-validation on the training split and its F1 on the test split.    *)
(***************************************************************************)
\* self.param_grids.keys(), in insertion order
Candidates == <<"RandomForest", "GradientBoosting", "XGBoost">>

Scores == {0, 50, 80}

\* _perform_randomized_search, _perform_cross_validation, predict and metrics
TrainingStages == {"search", "cross_validation", "evaluation"}

CandidateOutcomes ==
    {[fails |-> st, cv_f1 |-> 0, test_f1 |-> 0] : st \in TrainingStages}
    \cup {[fails |-> "none", cv_f1 |-> c, test_f1 |-> t] : c \in Scores, t \in Scores}

\* the argument that holds a missing value, "none" when no argument does
MissingIn == {"none", "X_train", "X_test", "y_train", "y_test"}

\* the checks of lines 144-147 with the targets left out
has_missing_features_only(missing) == missing \in {"X_train", "X_test"}

\* X_train.isna().any().any() or X_test.isna().any().any(), then
\* y_train.isna().any() or y_test.isna().any()
has_missing(missing) ==
    missing \in {"X_train", "X_test"} \/ missing \in {"y_train", "y_test"}

\* if cv_metrics['f1_score'] > best_score
is_new_best(cv_metrics, test_metrics, best_score) == cv_metrics > best_score

InitTrainer ==
    /\ preloaded = [n |-> 0, used_in_training |-> FALSE]
    /\ store = <<>>
    /\ clock = 0
    /\ ret = NoCall
    /\ returned = [h \in Hashes |-> 0]
    /\ sess = [s \in Sessions |-> [pc |-> "idle"]]
    /\ artifacts = NoArtifacts
    /\ norm = [step |-> 0]
    /\ bulk = Off
    /\ predictor = Off
    /\ extractor = Off
    /\ trainer \in
         { [ pc              |-> "start",
             missing         |-> m,
             outcome         |-> o,
             i               |-> 1,
             best_model_name |-> "None",
             best_score      |-> 0,
             model_results   |-> {},
             best_model_file |-> "previous",
             result          |-> NoCall ] :
           m \in MissingIn, o \in [1..Len(Candidates) -> CandidateOutcomes] }

\* lines 141-154: the checks for missing values, the initial best
CheckInputs ==
    /\ trainer.pc = "start"
    /\ trainer' =
         IF has_missing(trainer.missing)
         THEN [trainer EXCEPT !.pc = "done",
                              !.result = raised_result("initiate_model_training",
                                                       "ModelTrainerError")]
         ELSE [trainer EXCEPT !.pc = "loop"]
    /\ UNCHANGED <<service, bulk, predictor, extractor>>

\* lines 162-226: one pass of the loop over the candidates
TrainCandidate ==
    /\ trainer.pc = "loop"
    /\ trainer.i <= Len(Candidates)
    /\ \E o \in {trainer.outcome[trainer.i]} :
         trainer' =
           IF o.fails # "none"
           THEN [trainer EXCEPT !.i = @ + 1]
           ELSE IF is_new_best(o.cv_f1, o.test_f1, trainer.best_score)
           THEN [trainer EXCEPT !.i = @ + 1,
                                !.model_results = @ \cup {trainer.i},
                                !.best_score = o.cv_f1,
                                !.best_model_name = Candidates[trainer.i]]
           ELSE [trainer EXCEPT !.i = @ + 1,
                                !.model_results = @ \cup {trainer.i}]
    /\ UNCHANGED <<service, bulk, predictor, extractor>>

\* lines 228-264: no best model raises; otherwise the best model is written
\* to best_model_file_path and reported with its metrics
SaveBest ==
    /\ trainer.pc = "loop"
    /\ trainer.i > Len(Candidates)
    /\ trainer' =
         IF trainer.best_model_name = "None"
         THEN [trainer EXCEPT !.pc = "done",
                              !.result = raised_result("initiate_model_training",
                                                       "ModelTrainerError")]
         ELSE LET b == CHOOSE j \in 1..Len(Candidates) :
                           Candidates[j] = trainer.best_model_name
              IN  [trainer EXCEPT
                     !.pc = "done",
                     !.best_model_file = trainer.best_model_name,
                     !.result = [ op                |-> "initiate_model_training",
                                  raised            |-> FALSE,
                                  best_model        |-> trainer.best_model_name,
                                  model_performance |-> trainer.outcome[b].test_f1,
                                  cv_performance    |-> trainer.outcome[b].cv_f1,
                                  all_models        |-> trainer.model_results ]]
    /\ UNCHANGED <<service, bulk, predictor, extractor>>

NextTrainer == CheckInputs \/ TrainCandidate \/ SaveBest

SpecTrainer == InitTrainer /\ [][NextTrainer]_vars

(***************************************************************************)
(* BulkFeatureExtractor._process_urls_in_parallel.  The input is a number  *)
(* of URLs and, per chunk, the number of its URLs on which                 *)
(* extract_features raises; feature rows are counted by kind.              *)
(***************************************************************************)
\* self.chunk_size = 1000
chunk_size == 1000

\* the 8 of min(multiprocessing.cpu_count(), 8)
max_n_workers == 8

\* self.n_workers
n_workers(cpu_count) == IF cpu_count <= max_n_workers THEN cpu_count ELSE max_n_workers

CpuCounts == {1, 2, 16}

BulkSizes ==
    {0, 1, chunk_size - 1}
    \cup {k * chunk_size + d : k \in 1..(MaxChunks - 1), d \in {0, 1}}

\* total_chunks = (len(df) + self.chunk_size - 1) // self.chunk_size
total_chunks(n) == (n + chunk_size - 1) \div chunk_size

\* len(df['url'].iloc[i:i + self.chunk_size]) for the k-th chunk, i = (k-1) * chunk_size
chunk_len(n, k) ==
    IF n - (k - 1) * chunk_size >= chunk_size THEN chunk_size ELSE n - (k - 1) * chunk_size

\* _process_chunk with the failing URLs left out of the result
_process_chunk_skipping(len, failing) ==
    [raised |-> FALSE, extracted |-> len - failing, default |-> 0]

\* _process_chunk: one row per URL, the row of _get_default_features for a URL
\* on which extract_features raises; nothing in it raises
_process_chunk(len, failing) ==
    [raised |-> FALSE, extracted |-> len - failing, default |-> failing]

\* the numbers of failing URLs tried for a chunk: none, one, all
FailingIn(len) == {0, 1, len} \cap 0..len

InitBulk ==
    /\ preloaded = [n |-> 0, used_in_training |-> FALSE]
    /\ store = <<>>
    /\ clock = 0
    /\ ret = NoCall
    /\ returned = [h \in Hashes |-> 0]
    /\ sess = [s \in Sessions |-> [pc |-> "idle"]]
    /\ artifacts = NoArtifacts
    /\ norm = [step |-> 0]
    /\ trainer = Off
    /\ predictor = Off
    /\ extractor = Off
    /\ \E n \in BulkSizes, cpu_count \in CpuCounts :
       \E failing \in [1..total_chunks(n) -> {0, 1, chunk_size - 1, chunk_size}] :
           /\ \A k \in 1..total_chunks(n) : failing[k] \in FailingIn(chunk_len(n, k))
           /\ bulk = [ pc           |-> "start",
                       n            |-> n,
                       n_workers    |-> n_workers(cpu_count),
                       failing      |-> failing,
                       futures      |-> <<>>,
                       all_features |-> <<>>,
                       result       |-> NoCall ]

\* lines 159-162: every chunk is submitted to the executor
SubmitChunks ==
    /\ bulk.pc = "start"
    /\ bulk' = [bulk EXCEPT !.pc = "collect",
                            !.futures = [k \in 1..total_chunks(bulk.n) |-> "queued"]]
    /\ UNCHANGED <<service, trainer, predictor, extractor>>

\* a free worker thread takes the chunk at the head of the executor's queue
StartChunk(k) ==
    /\ bulk.pc = "collect"
    /\ bulk.futures[k] = "queued"
    /\ \A j \in 1..(k - 1) : bulk.futures[j] # "queued"
    /\ Cardinality({j \in DOMAIN bulk.futures : bulk.futures[j] = "running"}) < bulk.n_workers
    /\ bulk' = [bulk EXCEPT !.futures[k] = "running"]
    /\ UNCHANGED <<service, trainer, predictor, extractor>>

\* the worker returns from _process_chunk
FinishChunk(k) ==
    /\ bulk.pc = "collect"
    /\ bulk.futures[k] = "running"
    /\ bulk' = [bulk EXCEPT !.futures[k] = "finished"]
    /\ UNCHANGED <<service, trainer, predictor, extractor>>

\* lines 165-168: as_completed yields a finished future, its rows are appended
CollectChunk(k) ==
    /\ bulk.pc = "collect"
    /\ bulk.futures[k] = "finished"
    /\ \E chunk_features \in {_process_chunk(chunk_len(bulk.n, k), bulk.failing[k])} :
         bulk' =
           IF chunk_features.raised
           THEN [bulk EXCEPT !.pc = "done",
                             !.futures[k] = "collected",
                             !.result = raised_result("_process_urls_in_parallel",
                                                      "FeatureExtractionError")]
           ELSE [bulk EXCEPT !.futures[k] = "collected",
                             !.all_features =
                                 Append(@, [ chunk     |-> k,
                                             extracted |-> chunk_features.extracted,
                                             default   |-> chunk_features.default ])]
    /\ UNCHANGED <<service, trainer, predictor, extractor>>

\* line 170: every future was collected
ReturnFeatures ==
    /\ bulk.pc = "collect"
    /\ \A k \in DOMAIN bulk.futures : bulk.futures[k] = "collected"
    /\ bulk' = [bulk EXCEPT !.pc = "done",
                            !.result = [op |-> "_process_urls_in_parallel", raised |-> FALSE]]
    /\ UNCHANGED <<service, trainer, predictor, extractor>>

Start == \E k \in 1..MaxChunks : k \in DOMAIN bulk.futures /\ StartChunk(k)

Finished == \E k \in 1..MaxChunks : k \in DOMAIN bulk.futures /\ FinishChunk(k)

Collect == \E k \in 1..MaxChunks : k \in DOMAIN bulk.futures /\ CollectChunk(k)

NextBulk == SubmitChunks \/ Start \/ Finished \/ Collect \/ ReturnFeatures

SpecBulk == InitBulk /\ [][NextBulk]_vars

(***************************************************************************)
(* URLPredictor.  A file is missing, unreadable, or a dict with some keys. *)
(* The model has n feature columns 1..n and either exposes                 *)
(* feature_importances_ (in tenths) or does not.  A number is a fraction   *)
(* num / den with den > 0.                                                 *)
(***************************************************************************)
ModelKeys == {"model", "feature_columns"}

PreprocessorKeys == {"scaler"}

\* feature_importances_ of a model with n features, in tenths: the first k
\* features weigh 3, the others 1
ImportanceVectors(n) == {[f \in 1..n |-> IF f <= k THEN 3 ELSE 1] : k \in 0..n}

ScaledValues == {-2, 0, 1}

\* the [:5] of top_indicators
top_indicators_size == 5

ModelFiles ==
    {[state |-> st, keys |-> {}, n |-> 0, exposes |-> FALSE, importance |-> <<>>] :
        st \in {"missing", "unreadable"}}
    \cup {[state |-> "dict", keys |-> ks, n |-> 1, exposes |-> FALSE, importance |-> <<>>] :
            ks \in (SUBSET ModelKeys) \ {ModelKeys}}
    \cup {[state |-> "dict", keys |-> ModelKeys, n |-> n, exposes |-> FALSE,
           importance |-> <<>>] : n \in 1..MaxFeatures}
    \cup UNION {{[state |-> "dict", keys |-> ModelKeys, n |-> n, exposes |-> TRUE,
                  importance |-> imp] : imp \in ImportanceVectors(n)} :
                n \in 1..MaxFeatures}

PreprocessorFiles ==
    {[state |-> st, keys |-> {}] : st \in {"missing", "unreadable"}}
    \cup {[state |-> "dict", keys |-> ks] : ks \in SUBSET PreprocessorKeys}

\* load_model_and_features: joblib.load and len(model_data['feature_columns'])
\* inside the try; every exception becomes PredictionError
load_model_and_features(file) ==
    IF file.state # "dict" \/ "feature_columns" \notin file.keys
    THEN [raised |-> TRUE, error |-> "PredictionError"]
    ELSE [raised |-> FALSE, error |-> ""]

\* load_preprocessor: open and joblib.load inside the try
load_preprocessor(file) ==
    IF file.state # "dict"
    THEN [raised |-> TRUE, error |-> "PredictionError"]
    ELSE [raised |-> FALSE, error |-> ""]

\* d[key] outside any try
subscript(keys, key) ==
    IF key \in keys THEN [raised |-> FALSE, error |-> ""]
    ELSE [raised |-> TRUE, error |-> "KeyError"]

\* URLPredictor.__init__, lines 17-20 in order: what it raises, if anything
__init__(model_file, preprocessor_file) ==
    IF load_model_and_features(model_file).raised
    THEN load_model_and_features(model_file)
    ELSE IF subscript(model_file.keys, "model").raised
    THEN subscript(model_file.keys, "model")
    ELSE IF subscript(model_file.keys, "feature_columns").raised
    THEN subscript(model_file.keys, "feature_columns")
    ELSE IF load_preprocessor(preprocessor_file).raised
    THEN load_preprocessor(preprocessor_file)
    ELSE subscript(preprocessor_file.keys, "scaler")

\* dict(zip(self.feature_columns, self.model.feature_importances_)) if the
\* model has the attribute, else 1.0 / len(self.feature_columns) for each
feature_importance(model) ==
    [f \in 1..model.n |->
        IF model.exposes THEN [num |-> model.importance[f], den |-> 10]
        ELSE [num |-> 1, den |-> model.n]]

\* _calculate_feature_contributions: value * importance per feature column
_calculate_feature_contributions(features, importance_dict) ==
    [f \in DOMAIN features |->
        [num |-> features[f] * importance_dict[f].num, den |-> importance_dict[f].den]]

\* the sort key with the sign kept
sort_key_signed(contribution) == contribution

\* key=lambda x: abs(x[1])
sort_key(contribution) ==
    [num |-> IF contribution.num < 0 THEN 0 - contribution.num ELSE contribution.num,
     den |-> contribution.den]

\* a < b for fractions
less(a, b) == a.num * b.den < b.num * a.den

\* sorted(items, key=..., reverse=True): by decreasing key, items with equal
\* keys in their original order; the features in sorted order
sorted_reverse(contributions) ==
    LET ahead(f) == {g \in DOMAIN contributions :
                       \/ less(sort_key(contributions[f]), sort_key(contributions[g]))
                       \/ /\ ~less(sort_key(contributions[g]), sort_key(contributions[f]))
                          /\ g < f}
    IN  [r \in 1..Len(contributions) |->
            CHOOSE f \in DOMAIN contributions : Cardinality(ahead(f)) = r - 1]

\* sorted(...)[:5] as (feature, contribution) pairs
top_indicators(contributions) ==
    LET order == sorted_reverse(contributions)
        size  == IF Len(order) < top_indicators_size THEN Len(order) ELSE top_indicators_size
    IN  [r \in 1..size |-> [feature |-> order[r], contribution |-> contributions[order[r]]]]

InitPredictor ==
    /\ preloaded = [n |-> 0, used_in_training |-> FALSE]
    /\ store = <<>>
    /\ clock = 0
    /\ ret = NoCall
    /\ returned = [h \in Hashes |-> 0]
    /\ sess = [s \in Sessions |-> [pc |-> "idle"]]
    /\ artifacts = NoArtifacts
    /\ norm = [step |-> 0]
    /\ trainer = Off
    /\ bulk = Off
    /\ extractor = Off
    /\ predictor \in { [ pc                |-> "new",
                          model_file        |-> m,
                          preprocessor_file |-> p,
                          features          |-> <<>>,
                          result            |-> NoCall ] :
                        m \in ModelFiles, p \in PreprocessorFiles }

\* URLPredictor(): get_url_predictor builds one for a request
Construct ==
    /\ predictor.pc = "new"
    /\ \E outcome \in {__init__(predictor.model_file, predictor.preprocessor_file)} :
         predictor' =
           IF outcome.raised
           THEN [predictor EXCEPT !.pc = "failed",
                                  !.result = raised_result("__init__", outcome.error)]
           ELSE [predictor EXCEPT !.pc = "constructed",
                                  !.result = [op |-> "__init__", raised |-> FALSE]]
    /\ UNCHANGED <<service, trainer, bulk, extractor>>

\* predict(url); features: the scaled feature values of the URL;
\* fails: preprocess_url or the model raises
Predict(features, fails) ==
    /\ predictor.pc = "constructed"
    /\ predictor' =
         IF fails
         THEN [predictor EXCEPT !.pc = "predicted",
                                !.features = features,
                                !.result = raised_result("predict", "PredictionError")]
         ELSE LET feature_contributions ==
                      _calculate_feature_contributions(features,
                          feature_importance(predictor.model_file))
              IN  [predictor EXCEPT
                     !.pc = "predicted",
                     !.features = features,
                     !.result = [ op                    |-> "predict",
                                  raised                |-> FALSE,
                                  feature_contributions |-> feature_contributions,
                                  top_indicators        |->
                                      top_indicators(feature_contributions) ]]
    /\ UNCHANGED <<service, trainer, bulk, extractor>>

Prediction ==
    \E features \in [1..predictor.model_file.n -> ScaledValues], fails \in BOOLEAN :
        Predict(features, fails)

NextPredictor == Construct \/ Prediction

SpecPredictor == InitPredictor /\ [][NextPredictor]_vars

(***************************************************************************)
(* FeatureExtractor.extract_features, as far as sus_url is concerned.  The *)
(* lookups of the host (DNS, tldextract) are an input: they raise or not.  *)
(***************************************************************************)
\* self.suspicious_words
suspicious_words ==
    <<
      <<"P","a","y","P","a","l">>,
      <<"l","o","g","i","n">>,
      <<"s","i","g","n","i","n">>,
      <<"b","a","n","k">>,
      <<"a","c","c","o","u","n","t">>,
      <<"u","p","d","a","t","e">>,
      <<"f","r","e","e">>,
      <<"l","u","c","k","y">>,
      <<"s","e","r","v","i","c","e">>,
      <<"b","o","n","u","s">>,
      <<"e","b","a","y","i","s","a","p","i">>,
      <<"w","e","b","s","c","r">>,
      <<"s","e","c","u","r","e">>,
      <<"b","a","n","k","i","n","g">>,
      <<"c","o","n","f","i","r","m">>,
      <<"v","e","r","i","f","y">>,
      <<"a","u","t","h","e","n","t","i","c","a","t","i","o","n">>,
      <<"w","a","l","l","e","t">>
    >>

\* str.upper() on one character
UpperChar(c) ==
    IF \E i \in 1..26 : LowerSeq[i] = c
    THEN UpperSeq[CHOOSE i \in 1..26 : LowerSeq[i] = c]
    ELSE c

\* str.upper()
upper(s) == [i \in 1..Len(s) |-> UpperChar(s[i])]

\* word in s
is_in(word, s) ==
    \E i \in 1..(Len(s) - Len(word) + 1) : SubSeq(s, i, i + Len(word) - 1) = word

\* 1 if any(word in url.lower() for word in self.suspicious_words) else 0
_suspicious_words(url) ==
    IF \E k \in 1..Len(suspicious_words) : is_in(suspicious_words[k], lower(url))
    THEN 1 ELSE 0

\* each word of the list as written, in lower case and in upper case
WordSpellings ==
    UNION {{suspicious_words[k], lower(suspicious_words[k]), upper(suspicious_words[k])} :
            k \in 1..Len(suspicious_words)}

\* URLs handed to extract_features: a spelling of a listed word alone, as the
\* path of a URL and inside a longer path, and the URLs of Urls
ExtractorUrls ==
    WordSpellings
    \cup {HTTP \o <<"a", ".", "c", "o", "/">> \o w : w \in WordSpellings}
    \cup {HTTP \o <<"a", ".", "c", "o", "/", "x">> \o w \o <<"?", "q">> : w \in WordSpellings}
    \cup Urls

InitExtractor ==
    /\ preloaded = [n |-> 0, used_in_training |-> FALSE]
    /\ store = <<>>
    /\ clock = 0
    /\ ret = NoCall
    /\ returned = [h \in Hashes |-> 0]
    /\ sess = [s \in Sessions |-> [pc |-> "idle"]]
    /\ artifacts = NoArtifacts
    /\ norm = [step |-> 0]
    /\ trainer = Off
    /\ bulk = Off
    /\ predictor = Off
    /\ extractor \in {[pc |-> "start", url |-> u, result |-> NoCall] : u \in ExtractorUrls}

\* extract_features(url); fails: a statement of the try block raises, and the
\* except branch raises FeatureExtractionError
extract_features(fails) ==
    /\ extractor.pc = "start"
    /\ extractor' =
         [extractor EXCEPT
            !.pc = "done",
            !.result = IF fails
                       THEN raised_result("extract_features", "FeatureExtractionError")
                       ELSE [ op      |-> "extract_features",
                              raised  |-> FALSE,
                              sus_url |-> _suspicious_words(extractor.url) ]]
    /\ UNCHANGED <<service, trainer, bulk, predictor>>

ExtractFeatures == \E fails \in BOOLEAN : extract_features(fails)

SpecExtractor == InitExtractor /\ [][ExtractFeatures]_vars

(***************************************************************************)
(* Normalization runs: _normalize_url applied to a string, then to its     *)
(* own result.                                                             *)
(***************************************************************************)
NormAlphabet == {"a", "w", ".", "/", ":", "8"}

RECURSIVE StringsUpTo(_)
\* every string over NormAlphabet of length <= n
StringsUpTo(n) ==
    IF n = 0 THEN {<<>>}
    ELSE LET shorter == StringsUpTo(n - 1)
         IN  shorter \cup {Append(t, c) : t \in {x \in shorter : Len(x) = n - 1},
                                          c \in NormAlphabet}

SampleUrls ==
    { HTTP \o <<"a",".","c","o",":","8","0","/","x">>,
      HTTP \o <<"w","w","w","w",".","w","w",".","a",".","c","o">>,
      <<"H","T","T","P",":","/","/","W","W","W",".","A",".","c","o","/">>,
      HTTP \o <<"/","/","a",".","c","o","/","x">>,
      HTTP \o <<"a",".","c","o","/","w","w","w",".","/">>,
      HTTP \o <<"a",".","c","o","/","x","?","q","#","f">>,
      HTTP \o <<"a",".","c","o","/","x",";","p">>,
      HTTP \o <<"[","a",".","c","o">> }

NormInputs == StringsUpTo(MaxUrlLen) \cup SampleUrls \cup Urls

InitNorm ==
    /\ preloaded = [n |-> 0, used_in_training |-> FALSE]
    /\ store = <<>>
    /\ clock = 0
    /\ ret = NoCall
    /\ returned = [h \in Hashes |-> 0]
    /\ sess = [s \in Sessions |-> [pc |-> "idle"]]
    /\ artifacts = NoArtifacts
    /\ norm \in {[step |-> 0, url |-> u] : u \in NormInputs}
    /\ trainer = Off
    /\ bulk = Off
    /\ predictor = Off
    /\ extractor = Off

Normalize ==
    /\ norm.step = 0
    /\ norm' = [step |-> 1, url |-> norm.url, once |-> _normalize_url(norm.url)]
    /\ UNCHANGED <<preloaded, store, clock, ret, returned, sess, artifacts, offline>>

NormalizeAgain ==
    /\ norm.step = 1
    /\ norm' = [step |-> 2, url |-> norm.url, once |-> norm.once,
                twice |-> _normalize_url(norm.once)]
    /\ UNCHANGED <<preloaded, store, clock, ret, returned, sess, artifacts, offline>>

NextNorm == Normalize \/ NormalizeAgain

SpecNorm == InitNorm /\ [][NextNorm]_vars

(***************************************************************************)
(* Properties.                                                             *)
(***************************************************************************)
Rows == 1..Len(store)

\* number of occurrences of a label in a history
Occurrences(history, label) == Cardinality({j \in 1..Len(history) : history[j] = label})

\* rows not yet used in training that have consensus or at least two feedbacks
EligibleUnusedRows ==
    (IF preloaded.used_in_training THEN 0 ELSE preloaded.n)
    + Cardinality({i \in Rows : /\ ~store[i].used_in_training
                                /\ (store[i].consensus_reached \/ store[i].feedback_count >= 2)})

AllIdle == \A s \in Sessions : sess[s].pc = "idle"

\* C3: once every call has finished, each record's feedback_count and the
\* length of its history equal the number of calls on its url_hash that
\* returned a result.
C3_NoLostUpdate ==
    AllIdle =>
        \A i \in Rows :
            /\ store[i].feedback_count = returned[store[i].url_hash]
            /\ Len(store[i].last_feedback_type) = returned[store[i].url_hash]

\* C4: the needs_retraining flag returned by process_feedback and by
\* get_training_stats is true exactly when the eligible unused rows are at
\* least retrain_threshold (so false one below it), and get_training_stats
\* returns remaining_until_retrain = max(0, retrain_threshold - that number).
C4_NeedsRetrainingAtThreshold ==
    /\ (ret.op = "process_feedback" /\ ~ret.raised) =>
            /\ ret.needs_retraining = (EligibleUnusedRows >= retrain_threshold)
            /\ (EligibleUnusedRows = retrain_threshold - 1 => ~ret.needs_retraining)
    /\ (ret.op = "get_training_stats" /\ ~ret.raised) =>
            /\ ret.needs_retraining = (EligibleUnusedRows >= retrain_threshold)
            /\ (EligibleUnusedRows = retrain_threshold - 1 => ~ret.needs_retraining)
            /\ ret.unused_eligible_records = EligibleUnusedRows
            /\ ret.remaining_until_retrain =
                   IF EligibleUnusedRows >= retrain_threshold THEN 0
                   ELSE retrain_threshold - EligibleUnusedRows

\* process_feedback returned needs_retraining with exactly retrain_threshold rows
C4_Witness ==
    /\ ret.op = "process_feedback"
    /\ ~ret.raised
    /\ ret.needs_retraining
    /\ EligibleUnusedRows = retrain_threshold

\* errors of retrain_model that come from its environment
EnvironmentErrors == {"OperationalError", "DataIngestionError", "ModelTrainerError",
                      "No valid features extracted"}

\* C5: a retrain_model call made with at least retrain_threshold eligible
\* unused rows (and no failure of the database, the files or the training)
\* ends with every row that was eligible marked used_in_training, and the
\* eligible unused rows are fewer by the new_samples_used it returns.
C5_RetrainMarksProcessed ==
    [][ ( /\ ret'.op = "retrain_model"
          /\ EligibleUnusedRows >= retrain_threshold
          /\ ~(ret'.raised /\ ret'.error \in EnvironmentErrors) )
        => ( /\ ~ret'.raised
             /\ Len(store') = Len(store)
             /\ \A i \in Rows :
                    (~store[i].used_in_training
                        /\ (store[i].consensus_reached \/ store[i].feedback_count >= 2))
                    => store'[i].used_in_training
             /\ preloaded'.used_in_training
             /\ EligibleUnusedRows' = EligibleUnusedRows - ret'.new_samples_used ) ]_vars

\* C6: a process_feedback call that raises leaves the table as it was.
C6_RaiseLeavesStore ==
    [][ (ret'.op = "process_feedback" /\ ret'.raised)
        => (store' = store /\ preloaded' = preloaded) ]_vars

RetrainsInFlight == {s \in Sessions : sess[s].pc = "fetched"}

\* C12: no two retrain_model calls are at the same time between the fetch of
\* the eligible records and the commit of the marks.
C12_OneRetrainInFlight == Cardinality(RetrainsInFlight) <= 1

\* C13: a retrain_model call made with fewer than retrain_threshold eligible
\* unused rows (and a database that answers) returns the no-op report with
\* the number of those rows and the threshold, does not raise, and changes no
\* row and no file.
C13_NoOpBelowThreshold ==
    [][ ( /\ ret'.op = "retrain_model"
          /\ EligibleUnusedRows < retrain_threshold
          /\ ~(ret'.raised /\ ret'.error = "OperationalError") )
        => ( /\ ~ret'.raised
             /\ ret'.message = "Not enough new data for retraining"
             /\ ret'.unused_samples = EligibleUnusedRows
             /\ ret'.threshold = retrain_threshold
             /\ store' = store
             /\ preloaded' = preloaded
             /\ artifacts' = artifacts ) ]_vars

\* retrain_model returned the no-op report one row below the threshold
C13_Witness ==
    /\ ret.op = "retrain_model"
    /\ ~ret.raised
    /\ ret.message = "Not enough new data for retraining"
    /\ ret.unused_samples = retrain_threshold - 1
    /\ Len(store) > 0

\* C14: no retrain_model call raises because feature extraction failed on its
\* records, whatever subset of them failed.
C14_ExtractionFailuresNotFatal ==
    [][ (ret'.op = "retrain_model" /\ ret'.raised)
        => ret'.error # "No valid features extracted" ]_vars

\* C15: every record's feedback_count equals the number of items of its
\* stored history.
C15_CountIsHistoryLength ==
    \A i \in Rows : store[i].feedback_count = Len(store[i].last_feedback_type)

\* candidates that went through search, cross-validation and evaluation
TrainedCandidates == {j \in 1..Len(Candidates) : trainer.outcome[j].fails = "none"}

\* C16: a finished training that did not raise reports, and has written as
\* the current best, the first candidate in iteration order among the trained
\* candidates with the greatest F1 on the test split.
C16_BestIsFirstMaxTestF1 ==
    (trainer.pc = "done" /\ ~trainer.result.raised) =>
        \E j \in TrainedCandidates :
            /\ \A k \in TrainedCandidates :
                   /\ trainer.outcome[k].test_f1 <= trainer.outcome[j].test_f1
                   /\ trainer.outcome[k].test_f1 = trainer.outcome[j].test_f1 => j <= k
            /\ trainer.result.best_model = Candidates[j]
            /\ trainer.best_model_file = Candidates[j]

\* C30: a finished training whose input held no missing value and in which
\* at least one candidate went through search, cross-validation, evaluation
\* and saving did not raise, and reports one of those candidates as the best
\* model, whatever the scores.
C30_TrainedCandidateIsReported ==
    (trainer.pc = "done" /\ trainer.missing = "none" /\ TrainedCandidates # {}) =>
        /\ ~trainer.result.raised
        /\ \E j \in TrainedCandidates : trainer.result.best_model = Candidates[j]

\* C17: a finished training whose input held a missing value, or whose
\* candidates all failed, raised ModelTrainerError and left the current-best
\* file as it was.
C17_RaisesAndKeepsBest ==
    (trainer.pc = "done" /\ (trainer.missing # "none" \/ TrainedCandidates = {})) =>
        /\ trainer.result.raised
        /\ trainer.result.error = "ModelTrainerError"
        /\ trainer.best_model_file = "previous"

\* the training went through all candidates, every one failed, and it raised
C17_Witness ==
    /\ trainer.pc = "done"
    /\ trainer.missing = "none"
    /\ trainer.i > Len(Candidates)
    /\ \A j \in 1..Len(Candidates) : trainer.outcome[j].fails # "none"
    /\ trainer.result.raised

RECURSIVE RowsOf(_, _)
\* rows of one kind ("extracted", "default") in a list of chunk results
RowsOf(features, kind) ==
    IF features = <<>> THEN 0 ELSE Head(features)[kind] + RowsOf(Tail(features), kind)

RECURSIVE FailingUrls(_, _)
\* URLs of the chunks 1..k on which extraction raises
FailingUrls(failing, k) == IF k = 0 THEN 0 ELSE failing[k] + FailingUrls(failing, k - 1)

Malformed(file, keys) == file.state # "dict" \/ ~(keys \subseteq file.keys)

\* C19: constructing a URLPredictor on a model file or a preprocessor file
\* that is missing, unreadable or lacks 'model', 'feature_columns' or 'scaler'
\* fails with PredictionError.
C19_ConstructorRaisesPredictionError ==
    ( /\ predictor.pc \in {"constructed", "failed"}
      /\ \/ Malformed(predictor.model_file, ModelKeys)
         \/ Malformed(predictor.preprocessor_file, PreprocessorKeys) )
    => ( /\ predictor.pc = "failed"
         /\ predictor.result.error = "PredictionError" )

\* |a| as a fraction
AbsOf(c) == [num |-> IF c.num < 0 THEN 0 - c.num ELSE c.num, den |-> c.den]

\* C20: a predict call that returns lists min(5, N) distinct features of the
\* N trained ones, each with contribution = scaled value * importance (1/N
\* when the model exposes no importances), in order of non-increasing
\* absolute contribution, and no unlisted feature has a greater absolute
\* contribution than a listed one.
C20_TopIndicators ==
    (predictor.pc = "predicted" /\ ~predictor.result.raised) =>
        LET top    == predictor.result.top_indicators
            model  == predictor.model_file
            listed == {top[r].feature : r \in 1..Len(top)}
            contribution(f) ==
                IF model.exposes
                THEN [num |-> predictor.features[f] * model.importance[f], den |-> 10]
                ELSE [num |-> predictor.features[f], den |-> model.n]
        IN  /\ Len(top) = (IF model.n < 5 THEN model.n ELSE 5)
            /\ Cardinality(listed) = Len(top)
            /\ listed \subseteq 1..model.n
            /\ \A r \in 1..Len(top) : top[r].contribution = contribution(top[r].feature)
            /\ \A r \in 1..(Len(top) - 1) :
                   ~less(AbsOf(top[r].contribution), AbsOf(top[r + 1].contribution))
            /\ \A f \in (1..model.n) \ listed : \A g \in listed :
                   ~less(AbsOf(contribution(g)), AbsOf(contribution(f)))

\* six features, five listed, a negative contribution ranked above a positive one
C20_Witness ==
    /\ predictor.pc = "predicted"
    /\ ~predictor.result.raised
    /\ predictor.model_file.n > top_indicators_size
    /\ Len(predictor.result.top_indicators) = top_indicators_size
    /\ predictor.result.top_indicators[1].contribution.num < 0
    /\ predictor.result.top_indicators[2].contribution.num > 0
    /\ ~predictor.model_file.exposes

\* C21: extract_features returns sus_url = 1 for a URL that contains a word
\* of the suspicious-word list in any mix of upper and lower case, and
\* sus_url = 0 for every other URL.
C21_SusUrlCaseInsensitive ==
    (extractor.pc = "done" /\ ~extractor.result.raised) =>
        extractor.result.sus_url =
            IF \E k \in 1..Len(suspicious_words) :
                   is_in(lower(suspicious_words[k]), lower(extractor.url))
            THEN 1 ELSE 0

\* the commit of the call of session s updates row i, an existing record
UpdatesRow(s, i) ==
    /\ sess[s].pc = "queried"
    /\ sess'[s].pc = "committed"
    /\ sess[s].call.existing_record.id # 0
    /\ store[i].id = sess[s].call.existing_record.id

\* the label reported by the call of session s
ReportedLabel(s) == IF sess[s].call.is_malicious THEN "malicious" ELSE "benign"

\* events 2..Len(history) whose label differed from the majority label of the
\* events before them (malicious on a tie)
Disagreements(history) ==
    Cardinality({j \in 2..Len(history) :
        history[j] # (IF 2 * Occurrences(SubSeq(history, 1, j - 1), "malicious") >= j - 1
                      THEN "malicious" ELSE "benign")})

\* C22: a process_feedback event on an existing record adds 1 to its
\* feedback_count and adds to its conflicting_feedbacks 1 when the reported
\* label differs from the type the record had before the event and 0 when it
\* does not; every record's conflicting_feedbacks is the number of its events
\* that disagreed with the type it had then, and is between 0 and
\* feedback_count - 1.
C22_CountsPerEvent ==
    /\ [](\A i \in Rows :
            /\ store[i].conflicting_feedbacks = Disagreements(store[i].last_feedback_type)
            /\ 0 <= store[i].conflicting_feedbacks
            /\ store[i].conflicting_feedbacks <= store[i].feedback_count - 1)
    /\ [][ \A s \in Sessions : \A i \in Rows :
             UpdatesRow(s, i) =>
                 /\ store'[i].feedback_count = store[i].feedback_count + 1
                 /\ store'[i].conflicting_feedbacks =
                        store[i].conflicting_feedbacks
                        + (IF ReportedLabel(s) # store[i].type THEN 1 ELSE 0) ]_vars

\* a record whose second and third events each disagreed with its type
C22_Witness ==
    \E i \in Rows :
        /\ store[i].feedback_count = 3
        /\ store[i].conflicting_feedbacks = 2
        /\ \E s \in Sessions : /\ sess[s].pc = "committed"
                               /\ sess[s].call.existing_record.id = store[i].id

\* C23: after a process_feedback event on an existing record the record's
\* confidence is the reported confidence when the reported label differs from
\* the type the record had before the event, and the greater of its previous
\* confidence and the reported one otherwise; every stored confidence is in
\* [0, 1] (0..100 hundredths).
C23_ConfidenceRule ==
    /\ [](\A i \in Rows : 0 <= store[i].confidence /\ store[i].confidence <= 100)
    /\ [][ \A s \in Sessions : \A i \in Rows :
             UpdatesRow(s, i) =>
                 store'[i].confidence =
                     IF ReportedLabel(s) # store[i].type
                     THEN sess[s].call.confidence
                     ELSE IF store[i].confidence >= sess[s].call.confidence
                          THEN store[i].confidence ELSE sess[s].call.confidence ]_vars

\* an event with the record's label and a lower confidence left the higher one
C23_Witness ==
    \E s \in Sessions : \E i \in Rows :
        /\ sess[s].pc = "committed"
        /\ sess[s].call.existing_record.id = store[i].id
        /\ ReportedLabel(s) = sess[s].call.existing_record.type
        /\ sess[s].call.confidence < sess[s].call.existing_record.confidence
        /\ store[i].confidence = sess[s].call.existing_record.confidence

\* C24: when every event on a record after its first EarlierEvents events
\* reports malicious, the record has type malicious and consensus_reached
\* once the malicious events are at least 60% of all its events (one and a
\* half times the earlier events), and keeps both from then on.
C24_SustainedFeedbackOverrides ==
    \A i \in Rows :
        2 * (store[i].feedback_count - EarlierEvents) >= 3 * EarlierEvents
            => (store[i].type = "malicious" /\ store[i].consensus_reached)

\* C25: a record whose consensus_reached is true keeps it true in every later
\* step.
C25_ConsensusStable ==
    [][ \A i \in Rows : store[i].consensus_reached => store'[i].consensus_reached ]_vars

\* rows a retrain in progress fetched that a feedback event has updated since
UpdatedSinceFetch(s) ==
    {i \in sess[s].training_ids :
        store[i].feedback_count # sess[s].training_records[i].feedback_count}

C27_RowsFollowInput ==
    (bulk.pc = "done" /\ ~bulk.result.raised) =>
        \A r \in 1..Len(bulk.all_features) : bulk.all_features[r].chunk = r

\* C28: no step deletes a record or changes the url, normalized_url or
\* url_hash of a record, and the commit of a process_feedback call changes no
\* field of a record whose url_hash is not the url_hash of the call's URL.
C28_FeedbackFrame ==
    [][ /\ Len(store') >= Len(store)
        /\ \A i \in Rows :
             /\ store'[i].id = store[i].id
             /\ store'[i].url = store[i].url
             /\ store'[i].normalized_url = store[i].normalized_url
             /\ store'[i].url_hash = store[i].url_hash
        /\ \A s \in Sessions :
             (sess[s].pc = "queried" /\ sess'[s].pc # "queried") =>
                 \A i \in Rows :
                     store[i].url_hash # sess[s].call.url_hash => store'[i] = store[i] ]_vars

\* a call has updated one of two records, through a URL that is not the one
\* the record was created with
C28_Witness ==
    \E s \in Sessions : \E i \in Rows :
        /\ Len(store) = 2
        /\ sess[s].pc = "committed"
        /\ sess[s].status = "updated"
        /\ sess[s].call.existing_record.id = store[i].id
        /\ sess[s].call.url # store[i].url

\* C29: a process_feedback event that leaves the stored type of the record it
\* updates unchanged does not lower the stored confidence of that record.
C29_ConfidenceNotLowered ==
    [][ \A s \in Sessions : \A i \in Rows :
          (UpdatesRow(s, i) /\ store'[i].type = store[i].type) =>
              store'[i].confidence >= store[i].confidence ]_vars

\* C7: a retrain_model call that raises leaves every row's used_in_training
\* as it was.
C7_RaiseLeavesUsedFlags ==
    [][ (ret'.op = "retrain_model" /\ ret'.raised)
        => ( /\ Len(store') = Len(store)
             /\ \A i \in Rows : store'[i].used_in_training = store[i].used_in_training
             /\ preloaded'.used_in_training = preloaded.used_in_training ) ]_vars

\* retrain_model found retrain_threshold rows, ran its pipeline and raised
C7_Witness ==
    /\ ret.op = "retrain_model"
    /\ ret.raised
    /\ ret.error = "TypeError"
    /\ artifacts.combined_training_data >= retrain_threshold

C9_NormalizeIdempotent == norm.step = 2 => norm.twice = norm.once

\* C10: the table holds at most one row per url_hash, and a commit of
\* process_feedback writes the one row of the call's url_hash and no other.
C10_OneRecordPerHash ==
    /\ [](\A i, j \in Rows : store[i].url_hash = store[j].url_hash => i = j)
    /\ [][ \A s \in Sessions :
             (sess[s].pc = "queried" /\ sess'[s].pc = "committed") =>
                 LET own == {i \in 1..Len(store') :
                                store'[i].normalized_url = sess[s].call.normalized_url}
                 IN  /\ Cardinality(own) = 1
                     /\ \A i \in own : i \in Rows => store'[i] # store[i]
                     /\ \A i \in Rows \ own : store'[i] = store[i] ]_vars

\* two sessions submitted an unseen URL at the same time: one row, one IntegrityError
C10_Witness ==
    /\ ret.op = "process_feedback" /\ ret.raised /\ ret.error = "IntegrityError"
    /\ Len(store) = 1

====
